---- MODULE Spec2Model ----
(***************************************************************************)
(* Continuous-verification session core of the telehealth backend:         *)
(*   Backend/models/Session.js              the session document schema    *)
(*   Backend/controllers/sessionController.js  the HTTP session handlers   *)
(*   server.js (unnamed/part_008)           the socket handlers            *)
(*                                                                         *)
(* Every handler is an async function: it runs until an await, and other   *)
(* handlers run before it resumes.  A handler is therefore a sequence of   *)
(* steps: one in which the store performs the read or write the handler    *)
(* awaits, and one in which the handler resumes with the settled promise   *)
(* and answers.  A resumption that only computes and issues the next store *)
(* operation touches nothing shared and is part of that operation's step;  *)
(* a read that is rejected, a validation error and a synchronous throw     *)
(* change nothing and are part of the step in which the catch answers.  A  *)
(* write the store rejects may have been applied (see FailedSave): it is a *)
(* step of its own, before the catch answers.  A request in flight holds   *)
(* its position and the document it loaded in its slot of `reqs`.  `last`  *)
(* is the answer of the handler that finished most recently.               *)
(*                                                                         *)
(* Confidences are counted in hundredths (0.9 is 90).  The source computes *)
(* in double precision; TrustScore and LowTrust are defined on the windows *)
(* on which the double results equal the exact rational ones, and on no    *)
(* other window (see Dyadic and Nineties).                                 *)
(* A value that may be absent (confidence, verified, a field of a request  *)
(* body) is a sequence of length 0 or 1.  Timestamps, details, doctorId,   *)
(* patientId and metadata are not interpreted by any handler and are left  *)
(* out of the records.                                                     *)
(***************************************************************************)
EXTENDS Integers, Sequences, FiniteSets, TLC

VARIABLES db, last, reqs, rooms, inbox

vars == <<db, last, reqs, rooms, inbox>>

(***************************************************************************)
(* Program constants                                                       *)
(***************************************************************************)
WindowSize == 10

ConfidenceMin == 0

ConfidenceMax == 100

TrustScoreMin == 0

TrustScoreMax == 100

DefaultTrustScore == 100

LowTrustThreshold == 50

VerificationTypes == {"voice", "keystroke", "mouse", "combined"}

SessionStatuses == {"active", "completed", "terminated", "suspicious"}

Null == "null"

(***************************************************************************)
(* Bounds of the model                                                     *)
(***************************************************************************)
MaxLogs == 2

SessionIds == {"s1"}

RequestIds == {"r1", "r2"}

(***************************************************************************)
(* Request inputs.  A body of POST /api/sessions/:sessionId/verification   *)
(* carries verificationType, verified and confidence.                      *)
(***************************************************************************)
Body(type, verified, confidence) ==
    [verificationType |-> type, verified |-> verified, confidence |-> confidence]

HttpBodies ==
    { Body("voice", <<TRUE>>, <<100>>),
      Body("voice", <<FALSE>>, <<150>>),
      Body("face", <<TRUE>>, <<100>>) }

\* the comparator's answer to a verify call (mlService returns response.data):
\* a result object, a falsy value ('', null, false, 0), or an exception
MlResult(verified, confidence) ==
    [thrown |-> FALSE, falsy |-> FALSE, verified |-> verified, confidence |-> confidence]

MlFalsy == [thrown |-> FALSE, falsy |-> TRUE, verified |-> <<>>, confidence |-> <<>>]

MlThrown == [thrown |-> TRUE, falsy |-> FALSE, verified |-> <<>>, confidence |-> <<>>]

SocketRequests ==
    { [type |-> "voice", ml |-> MlThrown],
      [type |-> "keystroke", ml |-> MlResult(<<TRUE>>, <<50>>)],
      [type |-> "keystroke", ml |-> MlThrown],
      [type |-> "keystroke", ml |-> MlFalsy],
      [type |-> "mouse", ml |-> MlResult(<<FALSE>>, <<0>>)] }

\* bodies of PUT /api/sessions/:sessionId; the last one holds falsy values
UpdateBodies ==
    { [status |-> <<"completed">>, endTime |-> <<"t1">>],
      [status |-> <<"suspicious">>, endTime |-> <<>>],
      [status |-> <<"">>, endTime |-> <<"">>] }

(***************************************************************************)
(* Session.js: the schema, its defaults and its validators                 *)
(***************************************************************************)
\* the schema default of overallTrustScore set to 0
NewSessionUnscored(sid) ==
    [ sessionId |-> sid,
      status |-> "active",
      endTime |-> Null,
      verificationLogs |-> << >>,
      alerts |-> << >>,
      overallTrustScore |-> 0 ]

NewSession(sid) ==
    [ sessionId |-> sid,
      status |-> "active",
      endTime |-> Null,
      verificationLogs |-> << >>,
      alerts |-> << >>,
      overallTrustScore |-> DefaultTrustScore ]

\* the max validator of confidence left out
ValidConfidenceNoMax(c) ==
    \/ c = << >>
    \/ c[1] >= ConfidenceMin

ValidConfidence(c) ==
    \/ c = << >>
    \/ /\ c[1] >= ConfidenceMin
       /\ c[1] <= ConfidenceMax

ValidLog(log) ==
    /\ log.verificationType \in VerificationTypes
    /\ log.verified # << >>
    /\ ValidConfidence(log.confidence)

\* save({ validateBeforeSave: false })
ValidSessionSkipped(doc) == doc.sessionId \in {"s1", "s2"}

\* the validators save() runs: the status enum, min and max of the score, and
\* the log subdocuments.  The elements of alerts are strings without validator.
ValidSession(doc) ==
    /\ doc.status \in SessionStatuses
    /\ doc.overallTrustScore >= TrustScoreMin
    /\ doc.overallTrustScore <= TrustScoreMax
    /\ \A i \in 1..Len(doc.verificationLogs) : ValidLog(doc.verificationLogs[i])

\* the element of alerts declared as a subdocument: every object is taken
CastsToStringAny(v) == TRUE

\* alerts: [{ timestamp: Date, type: String, ... }]: the key `type` makes this
\* an array of String, and the String caster rejects a plain object
CastsToString(v) == v.kind # "object"

\* the object literal both handlers push to alerts
Alert(type, severity) == [kind |-> "object", type |-> type, severity |-> severity]

(***************************************************************************)
(* The trust computation shared by addVerificationLog and verify-biometric *)
(***************************************************************************)
\* Array.prototype.slice(-10)
RecentLogs(logs) ==
    IF Len(logs) <= WindowSize THEN logs
    ELSE SubSeq(logs, Len(logs) - WindowSize + 1, Len(logs))

\* log.confidence || 0
ConfidenceOrZero(log) ==
    IF log.confidence = << >> THEN 0 ELSE log.confidence[1]

\* recentLogs.reduce((sum, log) => sum + (log.confidence || 0), 0)
RECURSIVE SumConfidence(_)
SumConfidence(logs) ==
    IF logs = << >> THEN 0
    ELSE SumConfidence(SubSeq(logs, 1, Len(logs) - 1)) + ConfidenceOrZero(logs[Len(logs)])

\* Math.round(num / den) for den > 0: the nearest integer, halves upwards
MathRound(num, den) == (2 * num + den) \div (2 * den)

\* windows whose confidences are multiples of 0.5: every partial sum is a
\* double, and sum / length * 100 rounds as the exact quotient does
Dyadic(logs) == \A i \in 1..Len(logs) : ConfidenceOrZero(logs[i]) % 50 = 0

\* windows of confidences 0 and 0.9: on each of them, of up to ten logs in any
\* order, the double results equal the exact ones
Nineties(logs) == \A i \in 1..Len(logs) : ConfidenceOrZero(logs[i]) \in {0, 90}

\* the windows on which the double arithmetic of the source is exact
ExactWindow(logs) == Dyadic(logs) \/ Nineties(logs)

\* Math.round(avgConfidence * 100) over the recent logs
TrustScore(logs) ==
    CASE ExactWindow(RecentLogs(logs)) ->
        MathRound(SumConfidence(RecentLogs(logs)), Len(RecentLogs(logs)))

\* the alert test at 0.95 instead of 0.5
LowTrustAt95(logs) ==
    SumConfidence(RecentLogs(logs)) < 95 * Len(RecentLogs(logs))

\* avgConfidence < 0.5 over the recent logs
LowTrust(logs) ==
    CASE ExactWindow(RecentLogs(logs)) ->
        SumConfidence(RecentLogs(logs)) < LowTrustThreshold * Len(RecentLogs(logs))

\* the in-memory document and whether alerts.push threw
Applied(thrown, doc) == [thrown |-> thrown, doc |-> doc]

\* a recovery rule: status back to active when the mean is no longer low
ApplyLogRecovering(doc, log, alertType) ==
    LET logs == Append(doc.verificationLogs, log)
        scored == [doc EXCEPT !.verificationLogs = logs,
                              !.overallTrustScore = TrustScore(logs)]
        flagged == [scored EXCEPT !.status = "suspicious"]
    IN  IF ~LowTrust(logs)
        THEN Applied(FALSE, [scored EXCEPT !.status = IF @ = "suspicious" THEN "active" ELSE @])
        ELSE IF CastsToString(Alert(alertType, "high"))
        THEN Applied(FALSE, [flagged EXCEPT !.alerts = Append(@, Alert(alertType, "high"))])
        ELSE Applied(TRUE, flagged)

\* push, recompute, alert: the in-memory document before save().  When the
\* mean is low, status is assigned and alerts.push casts its argument: a
\* rejected cast throws out of the handler's try block.
ApplyLog(doc, log, alertType) ==
    LET logs == Append(doc.verificationLogs, log)
        scored == [doc EXCEPT !.verificationLogs = logs,
                              !.overallTrustScore = TrustScore(logs)]
        flagged == [scored EXCEPT !.status = "suspicious"]
    IN  IF ~LowTrust(logs) THEN Applied(FALSE, scored)
        ELSE IF CastsToString(Alert(alertType, "high"))
        THEN Applied(FALSE, [flagged EXCEPT !.alerts = Append(@, Alert(alertType, "high"))])
        ELSE Applied(TRUE, flagged)

(***************************************************************************)
(* session.save(): validation first; then the update mongoose sends holds  *)
(* the modified paths only: the pushed array elements ($push) and the      *)
(* scalar paths whose value differs from the loaded one ($set).  `cur` is  *)
(* the stored document, `loaded` the one findOne returned, `doc` the       *)
(* in-memory document being saved.                                         *)
(***************************************************************************)
Pushed(loadedSeq, docSeq) == SubSeq(docSeq, Len(loadedSeq) + 1, Len(docSeq))

\* the whole in-memory document written over the stored one
SaveDocWhole(cur, loaded, doc) == doc

SaveDoc(cur, loaded, doc) ==
    [ sessionId |-> cur.sessionId,
      status |-> IF doc.status # loaded.status THEN doc.status ELSE cur.status,
      endTime |-> IF doc.endTime # loaded.endTime THEN doc.endTime ELSE cur.endTime,
      verificationLogs |->
          cur.verificationLogs \o Pushed(loaded.verificationLogs, doc.verificationLogs),
      alerts |-> cur.alerts \o Pushed(loaded.alerts, doc.alerts),
      overallTrustScore |->
          IF doc.overallTrustScore # loaded.overallTrustScore
          THEN doc.overallTrustScore ELSE cur.overallTrustScore ]

\* what the store may hold after it rejected the promise of save(): the update
\* was not applied, or it was applied and only its acknowledgement failed (the
\* connection was lost, the write concern timed out).  The handlers have no
\* rollback.
FailedSave(cur, loaded, doc) == {cur, SaveDoc(cur, loaded, doc)}

(***************************************************************************)
(* What a handler was sent and what it sent back: the request body (the    *)
(* event data on the socket path), the HTTP status code (0 on the socket   *)
(* path) and the socket events it emitted, in order.                       *)
(***************************************************************************)
Response(op, sid, body, code, emits) ==
    [op |-> op, sid |-> sid, body |-> body, code |-> code, emits |-> emits]

Emit(event, to, trustScore) == [event |-> event, to |-> to, trustScore |-> trustScore]

\* the connected observer sockets
Sockets == {"k1", "k2"}

\* a request in flight: where its handler waits, its inputs, the document it
\* holds in memory and the room events it has emitted so far
Slot(pc, sid, body, doc, emits) ==
    [pc |-> pc, sid |-> sid, body |-> body, doc |-> doc, emits |-> emits]

NoRequest == Slot("idle", Null, << >>, << >>, << >>)

Init ==
    /\ db = << >>
    /\ last = Response("none", Null, << >>, 0, << >>)
    /\ reqs = [r \in RequestIds |-> NoRequest]
    /\ rooms = [k \in Sockets |-> {}]
    /\ inbox = [k \in Sockets |-> << >>]

\* a new request takes the first slot that is free
Free(r) == reqs[r].pc = "idle" /\ r = CHOOSE q \in RequestIds : reqs[q].pc = "idle"

\* the submits in flight that have not yet written their log
Submitting(sid) ==
    {r \in RequestIds : reqs[r].sid = sid /\ reqs[r].pc \in {"found", "called", "loaded"}}

\* the submits started are bounded: n logs at most, stored or about to be
CanGrow(sid, n) ==
    (IF sid \in DOMAIN db THEN Len(db[sid].verificationLogs) ELSE 0)
        + Cardinality(Submitting(sid)) < n

RECURSIVE StoredLogs(_)
StoredLogs(S) ==
    IF S = {} THEN 0
    ELSE LET sid == CHOOSE s \in S : TRUE
         IN  Len(db[sid].verificationLogs) + StoredLogs(S \ {sid})

\* the same bound on the logs of all sessions together
CanGrowAll(n) ==
    StoredLogs(DOMAIN db)
        + Cardinality({r \in RequestIds : reqs[r].pc \in {"found", "called", "loaded"}}) < n

(***************************************************************************)
(* sessionController.js                                                    *)
(***************************************************************************)
\* createSession lines 9-16: Session.create with a fresh uuid as sessionId; the
\* store has written the document, the handler still waits for the promise
CreateSession(r, sid) ==
    /\ reqs[r].pc = "idle"
    /\ sid \notin DOMAIN db
    /\ db' = db @@ (sid :> NewSession(sid))
    /\ reqs' = [reqs EXCEPT ![r] = Slot("created", sid, << >>, << >>, << >>)]
    /\ UNCHANGED <<last, rooms, inbox>>

\* createSession lines 18-22: the promise has settled, 201
CreateRespond(r) ==
    /\ reqs[r].pc = "created"
    /\ last' = Response("createSession", reqs[r].sid, << >>, 201, << >>)
    /\ reqs' = [reqs EXCEPT ![r] = NoRequest]
    /\ UNCHANGED <<db, rooms, inbox>>

\* createSession when Session.create rejects: nothing is written, the catch
\* answers 500
CreateSessionFails(sid) ==
    /\ sid \notin DOMAIN db
    /\ last' = Response("createSession", sid, << >>, 500, << >>)
    /\ UNCHANGED <<db, reqs, rooms, inbox>>

\* getSession lines 36-40: the store performs findOne
GetFind(r, sid) ==
    /\ reqs[r].pc = "idle"
    /\ reqs' = [reqs EXCEPT ![r] =
                   IF sid \in DOMAIN db
                   THEN Slot("got", sid, << >>, << >>, << >>)
                   ELSE Slot("getMissing", sid, << >>, << >>, << >>)]
    /\ UNCHANGED <<db, last, rooms, inbox>>

\* getSession lines 42-52: the promise has settled; 404 when it gave no session
GetRespond(r) ==
    /\ reqs[r].pc \in {"got", "getMissing"}
    /\ last' = Response("getSession", reqs[r].sid, << >>,
                        IF reqs[r].pc = "got" THEN 200 ELSE 404, << >>)
    /\ reqs' = [reqs EXCEPT ![r] = NoRequest]
    /\ UNCHANGED <<db, rooms, inbox>>

\* getSession when findOne rejects: the catch answers 500
GetFindFails(sid) ==
    /\ last' = Response("getSession", sid, << >>, 500, << >>)
    /\ UNCHANGED <<db, reqs, rooms, inbox>>

\* if (v): the empty string and null are falsy
Truthy(v) == v \notin {"", Null}

\* an update that also puts the score back to its default
UpdatedDocResetsScore(doc, body) ==
    [doc EXCEPT !.status = IF body.status # << >> /\ Truthy(body.status[1])
                           THEN body.status[1] ELSE @,
                !.endTime = IF body.endTime # << >> /\ Truthy(body.endTime[1])
                            THEN body.endTime[1] ELSE @,
                !.overallTrustScore = DefaultTrustScore]

\* if (status) session.status = status; if (endTime) session.endTime = endTime
UpdatedDoc(doc, body) ==
    [doc EXCEPT !.status = IF body.status # << >> /\ Truthy(body.status[1])
                           THEN body.status[1] ELSE @,
                !.endTime = IF body.endTime # << >> /\ Truthy(body.endTime[1])
                            THEN body.endTime[1] ELSE @]

\* updateSession lines 91-93: read the body; the store performs findOne
UpdateFind(r, sid, body) ==
    /\ reqs[r].pc = "idle"
    /\ reqs' = [reqs EXCEPT ![r] =
                   IF sid \in DOMAIN db
                   THEN Slot("updating", sid, body, db[sid], << >>)
                   ELSE Slot("updateMissing", sid, body, << >>, << >>)]
    /\ UNCHANGED <<db, last, rooms, inbox>>

\* updateSession when findOne rejects: the catch answers 500
UpdateFindFails(sid, body) ==
    /\ last' = Response("updateSession", sid, body, 500, << >>)
    /\ UNCHANGED <<db, reqs, rooms, inbox>>

\* an update sent without its sessionId filter: every session is written
UpdateSaveUnfiltered(r) ==
    /\ reqs[r].pc = "updating"
    /\ LET sid == reqs[r].sid
           doc == UpdatedDoc(reqs[r].doc, reqs[r].body)
       IN  IF ValidSession(doc)
           THEN /\ db' = [s \in DOMAIN db |-> SaveDoc(db[s], reqs[r].doc, doc)]
                /\ reqs' = [reqs EXCEPT ![r].pc = "updated", ![r].doc = << >>]
                /\ UNCHANGED last
           ELSE /\ last' = Response("updateSession", sid, reqs[r].body, 500, << >>)
                /\ reqs' = [reqs EXCEPT ![r] = NoRequest]
                /\ UNCHANGED db
    /\ UNCHANGED <<rooms, inbox>>

\* updateSession lines 102-105: findOne gave a session; assign, then the store
\* performs the write of save().  A document the validators refuse is not
\* written and the catch answers 500.
UpdateSave(r) ==
    /\ reqs[r].pc = "updating"
    /\ LET sid == reqs[r].sid
           doc == UpdatedDoc(reqs[r].doc, reqs[r].body)
       IN  IF ValidSession(doc)
           THEN /\ db' = [db EXCEPT ![sid] = SaveDoc(db[sid], reqs[r].doc, doc)]
                /\ reqs' = [reqs EXCEPT ![r].pc = "updated", ![r].doc = << >>]
                /\ UNCHANGED last
           ELSE /\ last' = Response("updateSession", sid, reqs[r].body, 500, << >>)
                /\ reqs' = [reqs EXCEPT ![r] = NoRequest]
                /\ UNCHANGED db
    /\ UNCHANGED <<rooms, inbox>>

\* updateSession lines 102-119 when the store rejects the write of save()
UpdateSaveFails(r) ==
    /\ reqs[r].pc = "updating"
    /\ LET sid == reqs[r].sid
           doc == UpdatedDoc(reqs[r].doc, reqs[r].body)
       IN  /\ ValidSession(doc)
           /\ \E after \in FailedSave(db[sid], reqs[r].doc, doc) :
                 db' = [db EXCEPT ![sid] = after]
    /\ reqs' = [reqs EXCEPT ![r].pc = "updateRejected", ![r].doc = << >>]
    /\ UNCHANGED <<last, rooms, inbox>>

\* updateSession lines 95-100, 107-111 and 112-118: the promise has settled;
\* 404 when findOne gave no session, 200 when save() resolved, the 500 of the
\* catch when save() rejected
UpdateRespond(r) ==
    /\ reqs[r].pc \in {"updated", "updateMissing", "updateRejected"}
    /\ last' = Response("updateSession", reqs[r].sid, reqs[r].body,
                        CASE reqs[r].pc = "updated" -> 200
                          [] reqs[r].pc = "updateMissing" -> 404
                          [] OTHER -> 500, << >>)
    /\ reqs' = [reqs EXCEPT ![r] = NoRequest]
    /\ UNCHANGED <<db, rooms, inbox>>

\* addVerificationLog lines 127-129: read the body; the store performs findOne
FindSession(r, sid, body) ==
    /\ reqs[r].pc = "idle"
    /\ reqs' = [reqs EXCEPT ![r] =
                   IF sid \in DOMAIN db
                   THEN Slot("found", sid, body, db[sid], << >>)
                   ELSE Slot("notFound", sid, body, << >>, << >>)]
    /\ UNCHANGED <<db, last, rooms, inbox>>

\* addVerificationLog when findOne rejects: the catch answers 500
FindSessionFails(sid, body) ==
    /\ last' = Response("addVerificationLog", sid, body, 500, << >>)
    /\ UNCHANGED <<db, reqs, rooms, inbox>>

\* addVerificationLog lines 138-161: findOne gave a session; push, recompute,
\* alert, then the store performs the write of save().  When the push of the
\* alert throws or the validators refuse the document, nothing is written and
\* the catch answers 500.
SaveSession(r) ==
    /\ reqs[r].pc = "found"
    /\ LET sid == reqs[r].sid
           applied == ApplyLog(reqs[r].doc, reqs[r].body, "low_trust_score")
       IN  IF ~applied.thrown /\ ValidSession(applied.doc)
           THEN /\ db' = [db EXCEPT ![sid] = SaveDoc(db[sid], reqs[r].doc, applied.doc)]
                /\ reqs' = [reqs EXCEPT ![r].pc = "added", ![r].doc = << >>]
                /\ UNCHANGED last
           ELSE /\ last' = Response("addVerificationLog", sid, reqs[r].body, 500, << >>)
                /\ reqs' = [reqs EXCEPT ![r] = NoRequest]
                /\ UNCHANGED db
    /\ UNCHANGED <<rooms, inbox>>

\* addVerificationLog lines 138-175 when the store rejects the write of save()
SaveSessionFails(r) ==
    /\ reqs[r].pc = "found"
    /\ LET sid == reqs[r].sid
           applied == ApplyLog(reqs[r].doc, reqs[r].body, "low_trust_score")
       IN  /\ ~applied.thrown
           /\ ValidSession(applied.doc)
           /\ \E after \in FailedSave(db[sid], reqs[r].doc, applied.doc) :
                 db' = [db EXCEPT ![sid] = after]
    /\ reqs' = [reqs EXCEPT ![r].pc = "addRejected", ![r].doc = << >>]
    /\ UNCHANGED <<last, rooms, inbox>>

\* addVerificationLog lines 131-136, 163-167 and 168-174: the promise has
\* settled; 404 when findOne gave no session, 200 when save() resolved, the 500
\* of the catch when save() rejected
AddRespond(r) ==
    /\ reqs[r].pc \in {"added", "notFound", "addRejected"}
    /\ last' = Response("addVerificationLog", reqs[r].sid, reqs[r].body,
                        CASE reqs[r].pc = "added" -> 200
                          [] reqs[r].pc = "notFound" -> 404
                          [] OTHER -> 500, << >>)
    /\ reqs' = [reqs EXCEPT ![r] = NoRequest]
    /\ UNCHANGED <<db, rooms, inbox>>

(***************************************************************************)
(* server.js: the socket handlers                                          *)
(***************************************************************************)
\* io.emit(...): every connected socket, whatever room it joined
RecipientsAll(room) == Sockets

\* io.to(sessionId): the sockets that are in the room named sessionId
Recipients(room) == {k \in Sockets : room \in rooms[k]}

RoomEmits(emits) == SelectSeq(emits, LAMBDA e : e.to = "room")

\* what a socket receives of an emit to a room
Notification(room, e) == [event |-> e.event, room |-> room, trustScore |-> e.trustScore]

\* the inboxes after io.to(room).emit(...) of each room emit, in order
Broadcast(room, emits) ==
    [k \in Sockets |->
        IF k \in Recipients(room)
        THEN inbox[k] \o [i \in 1..Len(RoomEmits(emits)) |->
                              Notification(room, RoomEmits(emits)[i])]
        ELSE inbox[k]]

\* socket.on('join-session'): socket.join(sessionId), then the reply to the socket
JoinSession(k, sid) ==
    /\ rooms' = [rooms EXCEPT ![k] = @ \cup {sid}]
    /\ last' = Response("joinSession", sid, << >>, 0, <<Emit("session-joined", "socket", 0)>>)
    /\ UNCHANGED <<db, reqs, inbox>>

\* socket.on('disconnect'): the handler only logs; socket.io takes the socket
\* out of every room it had joined
Disconnect(k) ==
    /\ rooms[k] # {}
    /\ rooms' = [rooms EXCEPT ![k] = {}]
    /\ UNCHANGED <<db, last, reqs, inbox>>

\* the switch on type: only keystroke and mouse call the comparator
CallsComparator(type) == type \in {"keystroke", "mouse"}

\* session?.overallTrustScore || 100, of no session (<<>>) or of its score
ResultTrustScore(score) == IF score = << >> \/ score[1] = 0 THEN 100 ELSE score[1]

SocketLog(req) == Body(req.type, req.ml.verified, req.ml.confidence)

\* verify-biometric lines 100-117: the switch; result stays null for a type
\* without comparator and the handler ends without emitting
VerifyCall(r, sid, req) ==
    /\ reqs[r].pc = "idle"
    /\ IF ~CallsComparator(req.type)
       THEN /\ last' = Response("verifyBiometric", sid, req, 0, << >>)
            /\ UNCHANGED reqs
       ELSE /\ reqs' = [reqs EXCEPT ![r] = Slot("called", sid, req, << >>, << >>)]
            /\ UNCHANGED last
    /\ UNCHANGED <<db, rooms, inbox>>

\* verify-biometric lines 111-121 and 165-171: the comparator has answered;
\* when it threw, the catch; when its answer is falsy, if (result) skips the
\* update and the emit and the handler ends; else the store performs findOne
VerifyFind(r) ==
    /\ reqs[r].pc = "called"
    /\ LET sid == reqs[r].sid
       IN  IF reqs[r].body.ml.thrown
           THEN /\ last' = Response("verifyBiometric", sid, reqs[r].body, 0,
                                    <<Emit("verification-error", "socket", 0)>>)
                /\ reqs' = [reqs EXCEPT ![r] = NoRequest]
           ELSE IF reqs[r].body.ml.falsy
           THEN /\ last' = Response("verifyBiometric", sid, reqs[r].body, 0, << >>)
                /\ reqs' = [reqs EXCEPT ![r] = NoRequest]
           ELSE /\ reqs' = [reqs EXCEPT ![r] =
                               IF sid \in DOMAIN db
                               THEN Slot("loaded", sid, reqs[r].body, db[sid], << >>)
                               ELSE Slot("noSession", sid, reqs[r].body, << >>, << >>)]
                /\ UNCHANGED last
    /\ UNCHANGED <<db, rooms, inbox>>

\* verify-biometric when findOne rejects: the catch emits verification-error
VerifyFindFails(r) ==
    /\ reqs[r].pc = "called"
    /\ ~reqs[r].body.ml.thrown
    /\ ~reqs[r].body.ml.falsy
    /\ last' = Response("verifyBiometric", reqs[r].sid, reqs[r].body, 0,
                        <<Emit("verification-error", "socket", 0)>>)
    /\ reqs' = [reqs EXCEPT ![r] = NoRequest]
    /\ UNCHANGED <<db, rooms, inbox>>

\* the alert emit of line 147, reached when alerts.push did not throw
AlertEmits(loaded, applied) ==
    IF ~applied.thrown /\ Len(applied.doc.alerts) > Len(loaded.alerts)
    THEN <<Emit("verification-alert", "room", applied.doc.overallTrustScore)>>
    ELSE << >>

\* verify-biometric lines 122-155 and 165-171: findOne gave a session; push,
\* recompute, alert, then the store performs the write of save()
VerifySave(r) ==
    /\ reqs[r].pc = "loaded"
    /\ LET sid == reqs[r].sid
           applied == ApplyLog(reqs[r].doc, SocketLog(reqs[r].body), "low_confidence")
           alert == AlertEmits(reqs[r].doc, applied)
       IN  /\ inbox' = Broadcast(sid, alert)
           /\ IF ~applied.thrown /\ ValidSession(applied.doc)
              THEN /\ db' = [db EXCEPT ![sid] = SaveDoc(db[sid], reqs[r].doc, applied.doc)]
                   /\ reqs' = [reqs EXCEPT ![r].pc = "saved", ![r].doc = applied.doc,
                                           ![r].emits = alert]
                   /\ UNCHANGED last
              ELSE /\ last' = Response("verifyBiometric", sid, reqs[r].body, 0,
                                       alert \o <<Emit("verification-error", "socket", 0)>>)
                   /\ reqs' = [reqs EXCEPT ![r] = NoRequest]
                   /\ UNCHANGED db
    /\ UNCHANGED rooms

\* verify-biometric lines 122-155 and 165-171 when the store rejects the write
\* of save()
VerifySaveFails(r) ==
    /\ reqs[r].pc = "loaded"
    /\ LET sid == reqs[r].sid
           applied == ApplyLog(reqs[r].doc, SocketLog(reqs[r].body), "low_confidence")
           alert == AlertEmits(reqs[r].doc, applied)
       IN  /\ ~applied.thrown
           /\ ValidSession(applied.doc)
           /\ inbox' = Broadcast(sid, alert)
           /\ \E after \in FailedSave(db[sid], reqs[r].doc, applied.doc) :
                 db' = [db EXCEPT ![sid] = after]
           /\ reqs' = [reqs EXCEPT ![r].pc = "saveRejected", ![r].doc = << >>,
                                   ![r].emits = alert]
    /\ UNCHANGED <<last, rooms>>

\* verify-biometric lines 158-163: the promise of save() or, without session, of
\* findOne has settled; the result to the room
VerifyEmit(r) ==
    /\ reqs[r].pc \in {"saved", "noSession"}
    /\ LET sid == reqs[r].sid
           score == IF reqs[r].pc = "saved" THEN <<reqs[r].doc.overallTrustScore>> ELSE << >>
           result == <<Emit("verification-result", "room", ResultTrustScore(score))>>
       IN  /\ inbox' = Broadcast(sid, result)
           /\ last' = Response("verifyBiometric", sid, reqs[r].body, 0, reqs[r].emits \o result)
    /\ reqs' = [reqs EXCEPT ![r] = NoRequest]
    /\ UNCHANGED <<db, rooms>>

\* verify-biometric lines 165-171: the promise of save() was rejected; the
\* catch emits verification-error to the requesting socket
VerifyCatch(r) ==
    /\ reqs[r].pc = "saveRejected"
    /\ last' = Response("verifyBiometric", reqs[r].sid, reqs[r].body, 0,
                        reqs[r].emits \o <<Emit("verification-error", "socket", 0)>>)
    /\ reqs' = [reqs EXCEPT ![r] = NoRequest]
    /\ UNCHANGED <<db, rooms, inbox>>

(***************************************************************************)
(* One session under every handler, two requests in flight                 *)
(***************************************************************************)
Next ==
    \/ \E r \in RequestIds, sid \in SessionIds : Free(r) /\ CreateSession(r, sid)
    \/ \E r \in RequestIds : CreateRespond(r)
    \/ \E r \in RequestIds, sid \in SessionIds : Free(r) /\ GetFind(r, sid)
    \/ \E r \in RequestIds : GetRespond(r)
    \/ \E sid \in SessionIds : GetFindFails(sid)
    \/ \E r \in RequestIds, sid \in SessionIds, body \in UpdateBodies :
          Free(r) /\ UpdateFind(r, sid, body)
    \/ \E r \in RequestIds : UpdateSave(r)
    \/ \E r \in RequestIds : UpdateRespond(r)
    \/ \E r \in RequestIds, sid \in SessionIds, body \in HttpBodies :
          Free(r) /\ CanGrow(sid, MaxLogs) /\ FindSession(r, sid, body)
    \/ \E r \in RequestIds : SaveSession(r)
    \/ \E r \in RequestIds : AddRespond(r)
    \/ \E r \in RequestIds, sid \in SessionIds, req \in SocketRequests :
          Free(r) /\ CanGrow(sid, MaxLogs) /\ VerifyCall(r, sid, req)
    \/ \E r \in RequestIds : VerifyFind(r)
    \/ \E r \in RequestIds : VerifySave(r)
    \/ \E r \in RequestIds : VerifyEmit(r)

Spec == Init /\ [][Next]_vars

(***************************************************************************)
(* The sliding window: one session fed one event at a time, with           *)
(* confidences 0.9 and 0, past ten logs, and updated with every kind of    *)
(* body.                                                                   *)
(***************************************************************************)
MaxWindowLogs == 11

\* one createSession and one other request can be in flight together
CreateRequestIds == {"r1"}

WindowRequestIds == {"r2"}

WindowBodies ==
    { Body("voice", <<TRUE>>, <<90>>),
      Body("keystroke", <<FALSE>>, <<0>>) }

\* two closes as Meeting.endCall sends them, each with its own new Date(), and
\* a status outside the enum
WindowUpdates ==
    { [status |-> <<"suspicious">>, endTime |-> <<>>],
      [status |-> <<"active">>, endTime |-> <<>>],
      [status |-> <<"closed">>, endTime |-> <<>>],
      [status |-> <<"completed">>, endTime |-> <<"t1">>],
      [status |-> <<"completed">>, endTime |-> <<"t2">>] }

NextWindow ==
    \/ \E r \in CreateRequestIds, sid \in SessionIds : CreateSession(r, sid)
    \/ \E r \in CreateRequestIds : CreateRespond(r)
    \/ \E r \in WindowRequestIds, sid \in SessionIds, body \in WindowUpdates :
          UpdateFind(r, sid, body)
    \/ \E r \in WindowRequestIds : UpdateSave(r)
    \/ \E r \in WindowRequestIds : UpdateRespond(r)
    \/ \E r \in WindowRequestIds, sid \in SessionIds, body \in WindowBodies :
          CanGrow(sid, MaxWindowLogs) /\ FindSession(r, sid, body)
    \/ \E r \in WindowRequestIds : SaveSession(r)
    \/ \E r \in WindowRequestIds : AddRespond(r)

SpecWindow == Init /\ [][NextWindow]_vars

(***************************************************************************)
(* Two sessions side by side, requests interleaved at their awaits, and a  *)
(* store whose operations can fail: findOne, save() or create() then       *)
(* rejects, the handler's catch answers the error and the in-memory         *)
(* document is dropped with the request.  A single-document write is       *)
(* applied whole or not at all.                                            *)
(***************************************************************************)
MaxIsoLogs == 1

IsoSessionIds == {"s1", "s2"}

IsoBodies == { Body("voice", <<TRUE>>, <<100>>) }

IsoSocketRequests ==
    { [type |-> "keystroke", ml |-> MlResult(<<FALSE>>, <<0>>)],
      [type |-> "keystroke", ml |-> MlResult(<<TRUE>>, <<100>>)],
      [type |-> "keystroke", ml |-> MlFalsy] }

\* Meeting.endCall: PUT { status: 'completed', endTime: new Date() }
CloseBodies ==
    { [status |-> <<"completed">>, endTime |-> <<"t1">>] }

NextIso ==
    \/ \E r \in RequestIds, sid \in IsoSessionIds : Free(r) /\ CreateSession(r, sid)
    \/ \E r \in RequestIds : CreateRespond(r)
    \/ \E sid \in IsoSessionIds : CreateSessionFails(sid)
    \/ \E r \in RequestIds, sid \in IsoSessionIds, body \in CloseBodies :
          Free(r) /\ UpdateFind(r, sid, body)
    \/ \E sid \in IsoSessionIds, body \in CloseBodies : UpdateFindFails(sid, body)
    \/ \E r \in RequestIds : UpdateSave(r)
    \/ \E r \in RequestIds : UpdateSaveFails(r)
    \/ \E r \in RequestIds : UpdateRespond(r)
    \/ \E r \in RequestIds, sid \in IsoSessionIds, body \in IsoBodies :
          Free(r) /\ CanGrowAll(MaxIsoLogs) /\ FindSession(r, sid, body)
    \/ \E sid \in IsoSessionIds, body \in IsoBodies : FindSessionFails(sid, body)
    \/ \E r \in RequestIds : SaveSession(r)
    \/ \E r \in RequestIds : SaveSessionFails(r)
    \/ \E r \in RequestIds : AddRespond(r)
    \/ \E r \in RequestIds, sid \in IsoSessionIds, req \in IsoSocketRequests :
          Free(r) /\ CanGrowAll(MaxIsoLogs) /\ VerifyCall(r, sid, req)
    \/ \E r \in RequestIds : VerifyFind(r)
    \/ \E r \in RequestIds : VerifyFindFails(r)
    \/ \E r \in RequestIds : VerifySave(r)
    \/ \E r \in RequestIds : VerifySaveFails(r)
    \/ \E r \in RequestIds : VerifyCatch(r)
    \/ \E r \in RequestIds : VerifyEmit(r)

SpecIso == Init /\ [][NextIso]_vars

(***************************************************************************)
(* Observers: sockets join the rooms of two sessions and disconnect        *)
(* between the steps of the verify-biometric handler that publishes to the *)
(* rooms, one such handler in flight at a time.                            *)
(***************************************************************************)
MaxInbox == 2

RoomRequests ==
    { [type |-> "keystroke", ml |-> MlResult(<<TRUE>>, <<50>>)] }

\* one createSession and one verify-biometric handler can be in flight together
VerifyRequestIds == {"r2"}

\* the notifications a socket may still receive are bounded
InboxHasRoom ==
    \A k \in Sockets :
        Len(inbox[k]) + Cardinality({r \in VerifyRequestIds : reqs[r].pc # "idle"}) < MaxInbox

NextRooms ==
    \/ \E r \in CreateRequestIds, sid \in IsoSessionIds : CreateSession(r, sid)
    \/ \E r \in CreateRequestIds : CreateRespond(r)
    \/ \E k \in Sockets, sid \in IsoSessionIds : JoinSession(k, sid)
    \/ \E k \in Sockets : Disconnect(k)
    \/ \E r \in VerifyRequestIds, sid \in IsoSessionIds, req \in RoomRequests :
          InboxHasRoom /\ CanGrowAll(MaxIsoLogs) /\ VerifyCall(r, sid, req)
    \/ \E r \in VerifyRequestIds : VerifyFind(r)
    \/ \E r \in VerifyRequestIds : VerifySave(r)
    \/ \E r \in VerifyRequestIds : VerifyEmit(r)

SpecRooms == Init /\ [][NextRooms]_vars

(***************************************************************************)
(* Modalities: two sessions fed through both paths with events of every    *)
(* modality, confidences 1, 0.5 and absent.                                *)
(***************************************************************************)
MaxModalLogs == 2

ModalBodies ==
    { Body("voice", <<TRUE>>, <<100>>),
      Body("combined", <<TRUE>>, << >>) }

ModalRequests ==
    { [type |-> "keystroke", ml |-> MlResult(<<TRUE>>, <<50>>)],
      [type |-> "voice", ml |-> MlResult(<<TRUE>>, <<100>>)],
      [type |-> "mouse", ml |-> MlResult(<<TRUE>>, << >>)] }

NextModal ==
    \/ \E r \in RequestIds, sid \in IsoSessionIds : Free(r) /\ CreateSession(r, sid)
    \/ \E r \in RequestIds : CreateRespond(r)
    \/ \E r \in RequestIds, sid \in IsoSessionIds, body \in ModalBodies :
          Free(r) /\ CanGrow(sid, MaxModalLogs) /\ FindSession(r, sid, body)
    \/ \E r \in RequestIds : SaveSession(r)
    \/ \E r \in RequestIds : AddRespond(r)
    \/ \E r \in RequestIds, sid \in IsoSessionIds, req \in ModalRequests :
          Free(r) /\ CanGrow(sid, MaxModalLogs) /\ VerifyCall(r, sid, req)
    \/ \E r \in RequestIds : VerifyFind(r)
    \/ \E r \in RequestIds : VerifySave(r)
    \/ \E r \in RequestIds : VerifyEmit(r)

SpecModal == Init /\ [][NextModal]_vars

(***************************************************************************)
(* Vocabulary of the properties                                            *)
(***************************************************************************)
SubmitOps == {"addVerificationLog", "verifyBiometric"}

TerminalStatuses == {"terminated", "completed"}

\* this step stores the log of a submit on sid: exactly one log was appended
AcceptedSubmit(sid) ==
    /\ sid \in DOMAIN db
    /\ Len(db'[sid].verificationLogs) = Len(db[sid].verificationLogs) + 1

\* request r holds a loaded session and this step is its push, recompute and save
SubmitSaveStep(r) ==
    /\ reqs[r].pc \in {"found", "loaded"}
    /\ reqs'[r].pc # reqs[r].pc

\* this step of request r wrote its document: the handler now waits for save()
Stored(r) == reqs'[r].pc \in {"added", "saved"} /\ reqs'[r].pc # reqs[r].pc

\* the event request r submits
SubmittedLog(r) ==
    IF reqs[r].pc = "found" THEN reqs[r].body ELSE SocketLog(reqs[r].body)

\* the logs request r holds in memory once it has pushed its event
LogsInMemory(r) == Append(reqs[r].doc.verificationLogs, SubmittedLog(r))

\* the alerts this step appended to sid
NewAlerts(sid) == SubSeq(db'[sid].alerts, Len(db[sid].alerts) + 1, Len(db'[sid].alerts))

\* sum of the confidences of logs[from..Len(logs)], an absent confidence counting 0
RECURSIVE TailSum(_, _)
TailSum(logs, from) ==
    IF from > Len(logs) THEN 0
    ELSE (IF logs[from].confidence = << >> THEN 0 ELSE logs[from].confidence[1])
         + TailSum(logs, from + 1)

Min(a, b) == IF a <= b THEN a ELSE b

\* round(100 x mean(confidence)) over the last min(10, n) of n logs: the integer k
\* with  k - 1/2 <= mean < k + 1/2  (mean in hundredths)
WindowScore(logs) ==
    LET n == Len(logs)
        m == Min(10, n)
        total == TailSum(logs, n - m + 1)
    IN  CHOOSE k \in 0..100 : 2 * m * k - m <= 2 * total /\ 2 * total < 2 * m * k + m

\* confidence outside [0,1] or a modality that is none of the four
MalformedEvent(log) ==
    \/ log.verificationType \notin {"voice", "keystroke", "mouse", "combined"}
    \/ /\ log.confidence # << >>
       /\ (log.confidence[1] < 0 \/ log.confidence[1] > 100)

AllConfidence(logs, c) == \A i \in 1..Len(logs) : logs[i].confidence = <<c>>

HasEmit(l, event) == \E i \in 1..Len(l.emits) : l.emits[i].event = event

CountEmits(l, event) == Cardinality({i \in 1..Len(l.emits) : l.emits[i].event = event})

HasSeverity(alerts, severity) == \E i \in 1..Len(alerts) : alerts[i].severity = severity

IsPrefix(a, b) == Len(a) <= Len(b) /\ SubSeq(b, 1, Len(a)) = a

\* the response of a submit that was accepted and saved
AcceptedResponse(l) ==
    \/ l.op = "addVerificationLog" /\ l.code = 200
    \/ l.op = "verifyBiometric" /\ HasEmit(l, "verification-result")

\* the response of a submit that was refused with an error
ErrorResponse(l) ==
    \/ l.op = "addVerificationLog" /\ l.code = 500
    \/ l.op = "verifyBiometric" /\ HasEmit(l, "verification-error")

(***************************************************************************)
(* C1: after every accepted submit the stored overallTrustScore equals     *)
(* round(100 x mean(confidence)) over the last min(10, n) entries of       *)
(* verificationLogs in arrival order, n being the number of entries.       *)
(***************************************************************************)
C1_ScoreIsWindowMean ==
    \A sid \in DOMAIN db :
        db[sid].verificationLogs # << >> =>
            db[sid].overallTrustScore = WindowScore(db[sid].verificationLogs)

(***************************************************************************)
(* C2: a submit to a session whose status is terminated or completed is    *)
(* rejected and leaves the stored session as it was.                       *)
(***************************************************************************)
C2_ClosedSessionRejectsSubmit ==
    [][\A r \in RequestIds :
          (/\ SubmitSaveStep(r)
           /\ reqs[r].doc.status \in TerminalStatuses
           /\ db[reqs[r].sid].status \in TerminalStatuses)
          => (db' = db /\ ErrorResponse(last'))]_vars

(***************************************************************************)
(* C3: terminated and completed are absorbing: no step changes the status  *)
(* of a session that is terminated or completed.                           *)
(***************************************************************************)
C3_TerminalStatusAbsorbing ==
    [][\A sid \in DOMAIN db :
          db[sid].status \in TerminalStatuses => db'[sid].status = db[sid].status]_vars

(***************************************************************************)
(* C4: a submit of a well-formed event that brings the recomputed score    *)
(* below 50 is applied: it appends a critical alert, sets status           *)
(* terminated and sets endTime.                                            *)
(***************************************************************************)
C4_Below50Terminates ==
    [][\A r \in RequestIds :
          (/\ SubmitSaveStep(r)
           /\ ~MalformedEvent(SubmittedLog(r))
           /\ TrustScore(LogsInMemory(r)) < 50)
          => /\ HasSeverity(NewAlerts(reqs[r].sid), "critical")
             /\ db'[reqs[r].sid].status = "terminated"
             /\ db'[reqs[r].sid].endTime # Null]_vars

(***************************************************************************)
(* C5: concurrent submits to one session are serialized: once no submit is *)
(* in flight, the stored logs, score and alerts are what applying the      *)
(* stored events one at a time, in their stored order, produces.           *)
(***************************************************************************)
RECURSIVE Replay(_, _, _)
Replay(doc, logs, i) ==
    IF i > Len(logs) THEN Applied(FALSE, doc)
    ELSE LET applied == ApplyLog(doc, logs[i], "low_trust_score")
         IN  IF applied.thrown THEN applied ELSE Replay(applied.doc, logs, i + 1)

C5_SubmitsSerialized ==
    \A sid \in DOMAIN db :
        Submitting(sid) = {} =>
            LET serial == Replay(NewSession(sid), db[sid].verificationLogs, 1)
            IN  /\ ~serial.thrown
                /\ serial.doc.overallTrustScore = db[sid].overallTrustScore
                /\ serial.doc.alerts = db[sid].alerts

C7_Band50To60High ==
    [][\A sid \in SessionIds :
          (/\ AcceptedSubmit(sid)
           /\ db'[sid].overallTrustScore >= 50
           /\ db'[sid].overallTrustScore < 60)
          => /\ HasSeverity(NewAlerts(sid), "high")
             /\ db'[sid].status = "suspicious"]_vars

(***************************************************************************)
(* C8: an accepted submit whose recomputed score is in 60..69 appends      *)
(* exactly one alert, of severity medium, and leaves status unchanged.     *)
(***************************************************************************)
C8_Band60To70Medium ==
    [][\A sid \in SessionIds :
          (/\ AcceptedSubmit(sid)
           /\ db'[sid].overallTrustScore >= 60
           /\ db'[sid].overallTrustScore < 70)
          => /\ Len(NewAlerts(sid)) = 1
             /\ NewAlerts(sid)[1].severity = "medium"
             /\ db'[sid].status = db[sid].status]_vars

(***************************************************************************)
(* C9: a submit whose recomputed score is 70 or more is accepted, appends  *)
(* no alert and leaves status unchanged; ten events of confidence 0.9 on a *)
(* fresh session end with score 90, status active and no alert.            *)
(***************************************************************************)
C9_NoAlertFrom70 ==
    [][/\ \A r \in RequestIds :
            (/\ SubmitSaveStep(r)
             /\ ~MalformedEvent(SubmittedLog(r))
             /\ TrustScore(LogsInMemory(r)) >= 70)
            => /\ AcceptedSubmit(reqs[r].sid)
               /\ db'[reqs[r].sid].overallTrustScore = TrustScore(LogsInMemory(r))
               /\ db'[reqs[r].sid].alerts = db[reqs[r].sid].alerts
               /\ db'[reqs[r].sid].status = db[reqs[r].sid].status
       /\ \A sid \in SessionIds :
            (/\ AcceptedSubmit(sid)
             /\ Len(db'[sid].verificationLogs) = 10
             /\ AllConfidence(db'[sid].verificationLogs, 90))
            => /\ db'[sid].overallTrustScore = 90
               /\ db'[sid].alerts = << >>
               /\ (db[sid].status = "active" => db'[sid].status = "active")]_vars

\* scenario A has just run to its tenth event
C9_Witness ==
    \E sid \in DOMAIN db :
        /\ last.op = "addVerificationLog"
        /\ last.code = 200
        /\ Len(db[sid].verificationLogs) = 10
        /\ AllConfidence(db[sid].verificationLogs, 90)
        /\ db[sid].overallTrustScore = 90
        /\ db[sid].status = "active"
        /\ db[sid].alerts = << >>

(***************************************************************************)
(* C10: in every reachable state overallTrustScore of every session is an  *)
(* integer between 0 and 100.                                              *)
(***************************************************************************)
C10_ScoreInRange ==
    \A sid \in DOMAIN db : db[sid].overallTrustScore \in 0..100

\* the score has moved off its default: an event at the alert threshold was accepted
C10_Witness ==
    \E sid \in DOMAIN db :
        /\ Len(db[sid].verificationLogs) = 1
        /\ db[sid].overallTrustScore = 50
        /\ last.op = "verifyBiometric"
        /\ HasEmit(last, "verification-result")

(***************************************************************************)
(* C11: in every reachable state a suspicious session holds an alert of    *)
(* severity high and a terminated session one of severity critical.        *)
(***************************************************************************)
C11_StatusHasMatchingAlert ==
    \A sid \in DOMAIN db :
        /\ db[sid].status = "suspicious" => HasSeverity(db[sid].alerts, "high")
        /\ db[sid].status = "terminated" => HasSeverity(db[sid].alerts, "critical")

C13_FailedSaveLeavesStore ==
    [][\A r \in RequestIds :
          /\ (SubmitSaveStep(r) /\ ~Stored(r)) => db' = db
          /\ (/\ \/ SubmitSaveStep(r)
                  \/ reqs[r].pc \in {"addRejected", "saveRejected"}
              /\ reqs'[r] = NoRequest)
             => /\ db' = db
                /\ ErrorResponse(last')
                /\ last'.sid = reqs[r].sid
                /\ last'.body = reqs[r].body]_vars

(***************************************************************************)
(* C14: every accepted submit, on either path, publishes exactly one       *)
(* result notification, and an alert notification exactly when that apply  *)
(* appended an alert.                                                      *)
(***************************************************************************)
C14_AcceptedSubmitPublishes ==
    [][\A r \in RequestIds :
          /\ (reqs[r].pc \in {"added", "saved"} /\ reqs'[r] = NoRequest)
             => CountEmits(last', "verification-result") = 1
          /\ (SubmitSaveStep(r) /\ Stored(r))
             => (HasEmit(reqs'[r], "verification-alert") <=> NewAlerts(reqs[r].sid) # << >>)]_vars

(***************************************************************************)
(* C15: sessions are isolated: a step changes the stored document of a     *)
(* session only if it is the step of a request on that session; every      *)
(* operation on A leaves every other session B as it was.                  *)
(***************************************************************************)
C15_SessionsIsolated ==
    [][\A b \in DOMAIN db :
          db'[b] # db[b]
          => \E r \in RequestIds : reqs[r].sid = b /\ reqs'[r].pc # reqs[r].pc]_vars

\* s2 was closed and s1 has just taken an event
C15_Witness ==
    /\ DOMAIN db = {"s1", "s2"}
    /\ last.op = "addVerificationLog"
    /\ last.sid = "s1"
    /\ last.code = 200
    /\ Len(db["s1"].verificationLogs) = 1
    /\ db["s1"].status = "active"
    /\ db["s2"].status = "completed"
    /\ db["s2"].endTime = "t1"
    /\ db["s2"].verificationLogs = << >>

(***************************************************************************)
(* C16: closing is idempotent: closing a session that is already completed *)
(* or terminated succeeds and leaves the stored session as it was.         *)
(***************************************************************************)
C16_CloseIdempotent ==
    [][\A r \in RequestIds :
          (/\ reqs[r].pc = "updating"
           /\ reqs[r].body.status = <<"completed">>
           /\ reqs[r].doc.status \in TerminalStatuses
           /\ db[reqs[r].sid].status \in TerminalStatuses
           /\ UpdateSave(r))
          => (reqs'[r].pc = "updated" /\ db' = db)]_vars

(***************************************************************************)
(* C17: verificationLogs and alerts are append-only: across every step the *)
(* old sequence is a prefix of the new one, and an accepted submit appends *)
(* exactly its event at the end.                                           *)
(***************************************************************************)
C17_AppendOnly ==
    [][/\ \A sid \in DOMAIN db :
            /\ IsPrefix(db[sid].verificationLogs, db'[sid].verificationLogs)
            /\ IsPrefix(db[sid].alerts, db'[sid].alerts)
       /\ \A r \in RequestIds :
            (/\ SubmitSaveStep(r)
             /\ Stored(r))
            => db'[reqs[r].sid].verificationLogs =
                   Append(db[reqs[r].sid].verificationLogs, SubmittedLog(r))]_vars

\* a submit that had loaded the empty session has just appended the second event
C17_Witness ==
    \E sid \in DOMAIN db :
        /\ last.op = "addVerificationLog"
        /\ last.sid = sid
        /\ last.code = 200
        /\ Len(db[sid].verificationLogs) = 2
        /\ db[sid].verificationLogs[1].confidence = <<50>>
        /\ db[sid].verificationLogs[2] = last.body
        /\ reqs["r2"].pc = "saved"

C19_EndTimeIffClosed ==
    \A sid \in DOMAIN db :
        (db[sid].endTime = Null) <=> (db[sid].status \in {"active", "suspicious"})

(***************************************************************************)
(* C20: notifications are scoped and not replayed: a socket receives a     *)
(* notification only if it had joined the room of the notification's       *)
(* session before the notification was published; it never receives a      *)
(* notification of a session it did not join, and joining a room delivers  *)
(* none of the notifications published there earlier.                      *)
(***************************************************************************)
C20_ScopedNoReplay ==
    [][\A k \in Sockets :
          /\ IsPrefix(inbox[k], inbox'[k])
          /\ \A i \in (Len(inbox[k]) + 1)..Len(inbox'[k]) :
                /\ inbox'[k][i].room \in rooms[k]
                /\ \E r \in RequestIds :
                      /\ reqs[r].sid = inbox'[k][i].room
                      /\ reqs[r].pc \in {"saved", "noSession"}
                      /\ reqs'[r] = NoRequest
          /\ rooms'[k] # rooms[k] => inbox'[k] = inbox[k]]_vars

FromRoom(k, room) == SelectSeq(inbox[k], LAMBDA n : n.room = room)

\* k1 watched s1 from the start; k2 joined s1 late and also watches s2: k2 holds
\* no notification of s1, k1 holds one, and the one of s2 went to k2 alone
C20_Witness ==
    /\ rooms["k1"] = {"s1"}
    /\ rooms["k2"] = {"s1", "s2"}
    /\ Len(FromRoom("k1", "s1")) = 1
    /\ FromRoom("k2", "s1") = << >>
    /\ Len(FromRoom("k2", "s2")) = 1
    /\ FromRoom("k1", "s2") = << >>
    /\ "s2" \in DOMAIN db
    /\ FromRoom("k2", "s2")[1].trustScore = 50

(***************************************************************************)
(* C21: the absence of a modality never lowers trust: two sessions whose   *)
(* accepted events carry the same confidences in the same order have the   *)
(* same overallTrustScore, status and number of alerts, whatever the        *)
(* modalities of the events are and also when a modality sent no event.    *)
(***************************************************************************)
Confidences(logs) == [i \in 1..Len(logs) |-> logs[i].confidence]

C21_ModalityBlind ==
    \A a, b \in DOMAIN db :
        (/\ Submitting(a) = {}
         /\ Submitting(b) = {}
         /\ Confidences(db[a].verificationLogs) = Confidences(db[b].verificationLogs))
        => /\ db[a].overallTrustScore = db[b].overallTrustScore
           /\ db[a].status = db[b].status
           /\ Len(db[a].alerts) = Len(db[b].alerts)

(***************************************************************************)
(* C22: no accepted submit moves a session from suspicious back to active, *)
(* however high the trust score rises: a submit applied to a suspicious    *)
(* session leaves its status as it is.                                     *)
(***************************************************************************)
C22_NoRecoveryBySubmit ==
    [][\A sid \in DOMAIN db :
          (AcceptedSubmit(sid) /\ db[sid].status = "suspicious")
          => db'[sid].status = "suspicious"]_vars

\* a submit has just left the score of a suspicious session at 70 or more
C22_Witness ==
    \E sid \in DOMAIN db :
        /\ last.op = "addVerificationLog"
        /\ last.sid = sid
        /\ last.code = 200
        /\ db[sid].status = "suspicious"
        /\ db[sid].overallTrustScore >= 70
        /\ Len(db[sid].verificationLogs) = 2

(***************************************************************************)
(* C24: every verification-result notification carries the                 *)
(* overallTrustScore stored for that session by that apply, and none is    *)
(* broadcast for a sessionId that has no session record.                   *)
(***************************************************************************)
C24_ResultCarriesStoredScore ==
    [][\A r \in RequestIds :
          (/\ reqs[r].pc \in {"noSession", "saved"}
           /\ reqs'[r] = NoRequest
           /\ HasEmit(last', "verification-result"))
          => /\ reqs[r].sid \in DOMAIN db
             /\ reqs[r].pc = "saved"
             /\ \A i \in 1..Len(last'.emits) :
                   last'.emits[i].event = "verification-result"
                   => last'.emits[i].trustScore = reqs[r].doc.overallTrustScore]_vars

(***************************************************************************)
(* C25: the two ingestion paths are equivalent: an event (modality,        *)
(* verified, confidence) taken by verify-biometric leaves the session with *)
(* the same number of logs, overallTrustScore, status and number of alerts *)
(* as the same event taken by addVerificationLog from the same session.    *)
(***************************************************************************)
Outcome(doc) ==
    [ logs |-> Len(doc.verificationLogs),
      overallTrustScore |-> doc.overallTrustScore,
      status |-> doc.status,
      alerts |-> Len(doc.alerts) ]

\* what addVerificationLog stores for this body, loaded as `loaded`, on the
\* stored session `cur`
HttpStored(cur, loaded, body) ==
    LET applied == ApplyLog(loaded, body, "low_trust_score")
    IN  IF ~applied.thrown /\ ValidSession(applied.doc)
        THEN SaveDoc(cur, loaded, applied.doc)
        ELSE cur

C25_PathsEquivalent ==
    [][\A r \in RequestIds :
          /\ \A sid \in DOMAIN db, req \in ModalRequests :
                (VerifyCall(r, sid, req) /\ reqs'[r] = NoRequest)
                => Outcome(db'[sid]) = Outcome(HttpStored(db[sid], db[sid], SocketLog(req)))
          /\ (reqs[r].pc = "loaded" /\ reqs'[r].pc # "loaded")
             => Outcome(db'[reqs[r].sid]) =
                   Outcome(HttpStored(db[reqs[r].sid], reqs[r].doc, SocketLog(reqs[r].body)))]_vars

(***************************************************************************)
(* C26: alerts are not de-duplicated: every submit of a well-formed event  *)
(* whose post-append window mean is below 0.5 is accepted and appends      *)
(* exactly one alert of severity high, also when the session is already    *)
(* suspicious, and every accepted event whose window mean is 0.5 or more   *)
(* appends none.                                                           *)
(***************************************************************************)
C26_OneAlertPerLowEvent ==
    [][\A r \in RequestIds :
          (SubmitSaveStep(r) /\ ~MalformedEvent(SubmittedLog(r)))
          => IF LowTrust(LogsInMemory(r))
             THEN /\ AcceptedSubmit(reqs[r].sid)
                  /\ Len(NewAlerts(reqs[r].sid)) = 1
                  /\ NewAlerts(reqs[r].sid)[1].severity = "high"
             ELSE NewAlerts(reqs[r].sid) = << >>]_vars

(***************************************************************************)
(* C27: every verify-biometric request is answered: its handling emits a   *)
(* verification-result to the session's room or a verification-error to    *)
(* the requesting socket, for every modality and whether or not the        *)
(* comparator call succeeds.                                               *)
(***************************************************************************)
C27_RequestAnswered ==
    last.op = "verifyBiometric"
    => (HasEmit(last, "verification-result") \/ HasEmit(last, "verification-error"))

(***************************************************************************)
(* C28: an event submitted without a confidence value is accepted and      *)
(* appended to verificationLogs, and it counts as confidence 0 in the      *)
(* window mean used for overallTrustScore.                                 *)
(***************************************************************************)
C28_AbsentConfidenceCountsZero ==
    [][\A r \in RequestIds :
          (/\ SubmitSaveStep(r)
           /\ ~MalformedEvent(SubmittedLog(r))
           /\ SubmittedLog(r).confidence = << >>)
          => /\ db'[reqs[r].sid].verificationLogs =
                    Append(db[reqs[r].sid].verificationLogs, SubmittedLog(r))
             /\ Stored(r)]_vars

(***************************************************************************)
(* C29: a newly created session has status active, empty verificationLogs, *)
(* empty alerts, endTime null and overallTrustScore 100; and in every      *)
(* reachable state a session whose verificationLogs is empty has           *)
(* overallTrustScore 100 and no alerts.                                    *)
(***************************************************************************)
C29_FreshSessionAndEmptyLog ==
    [][/\ \A sid \in DOMAIN db' \ DOMAIN db :
            /\ \E r \in RequestIds : reqs'[r].pc = "created" /\ reqs'[r].sid = sid
            /\ db'[sid].status = "active"
            /\ db'[sid].verificationLogs = << >>
            /\ db'[sid].alerts = << >>
            /\ db'[sid].endTime = Null
            /\ db'[sid].overallTrustScore = 100
       /\ \A sid \in DOMAIN db' :
            db'[sid].verificationLogs = << >>
            => (db'[sid].overallTrustScore = 100 /\ db'[sid].alerts = << >>)]_vars

\* a session was closed without any event and has since refused a malformed one
C29_Witness ==
    \E sid \in DOMAIN db :
        /\ last.op = "addVerificationLog"
        /\ last.sid = sid
        /\ last.code = 500
        /\ MalformedEvent(last.body)
        /\ db[sid].verificationLogs = << >>
        /\ db[sid].status = "completed"
        /\ db[sid].endTime # Null
        /\ db[sid].overallTrustScore = 100
        /\ db[sid].alerts = << >>

(***************************************************************************)
(* C30: a submit, get or update that names a sessionId with no session     *)
(* record reports not-found, creates no session record and changes no      *)
(* existing session.                                                       *)
(***************************************************************************)
\* 404 on the HTTP paths; on the socket path, where there is no status code, at
\* the least no verification-result is published for the missing session
ReportsNotFound(l) ==
    IF l.op = "verifyBiometric"
    THEN ~HasEmit(l, "verification-result")
    ELSE l.code = 404

\* the handler of request r waits with the answer of a findOne that gave no session
FoundNothing(slot) == slot.pc \in {"getMissing", "updateMissing", "notFound", "noSession"}

C30_MissingSessionNotFound ==
    [][\A r \in RequestIds :
          /\ (FoundNothing(reqs'[r]) /\ reqs'[r] # reqs[r]) => db' = db
          /\ (FoundNothing(reqs[r]) /\ reqs'[r] = NoRequest)
             => /\ db' = db
                /\ last'.sid = reqs[r].sid
                /\ ReportsNotFound(last')]_vars
====
